---- MODULE Spec2Model ----
(***************************************************************************)
(* A model of main.py (RSSPodcastNoteGenerator): the startup credential    *)
(* check, the feed registry, the entry filter, the combined sort, the note *)
(* generator and the interactive session driver run().                     *)
(*                                                                         *)
(* Conventions.                                                            *)
(*  - A Python str whose characters matter (feed names, console lines) is  *)
(*    a sequence of one-character strings.                                 *)
(*  - An optional dictionary key is a sequence: << >> when the key is      *)
(*    missing, <<v>> when it holds v.  A published_parsed/updated_parsed   *)
(*    key that holds None is written << >> too (the code tests its truth); *)
(*    a published/updated key that holds None is <<NoneText>> (the code    *)
(*    tests only its presence).                                            *)
(*  - Time is counted in hours since the epoch.  A structured time tuple   *)
(*    (published_parsed) is its UTC hour.  A textual date is a record      *)
(*    [kind, wall, off]: kind "bad" is text dateutil cannot parse, "naive" *)
(*    is text with no (recognised) timezone, "aware" is text with a UTC    *)
(*    offset of off hours, "none" is None in place of text; wall is the    *)
(*    wall-clock hour written in it.                                       *)
(*  - An operation that can raise returns a record with an exc field,      *)
(*    "" when nothing was raised.                                          *)
(***************************************************************************)
EXTENDS Integers, Sequences, FiniteSets, TLC

VARIABLES
    pc,               \* where the process is
    env_key,          \* what os.getenv("ANTHROPIC_API_KEY") returns
    config_file,      \* the content of rss_feeds.json
    client,           \* TRUE once anthropic.Anthropic(...) was created
    rss_feeds,        \* self.rss_feeds
    line,             \* the last console line read by input()
    sort_option,      \* run(): sort_option
    sorted_feeds,     \* run(): sorted_feeds
    selected_indices, \* run(): selected_indices
    selected_feeds,   \* run(): selected_feeds
    weeks_choice,     \* run(): weeks_choice
    weeks_ago,        \* run(): weeks_ago
    now,              \* the clock, in hours
    fetched,          \* the URLs handed to feedparser.parse, in order
    entries,          \* filter_entries_by_date called on its own: its argument
    filtered_entries, \* filter_entries_by_date called on its own: its result
    all_entries,      \* run(): all_entries
    num_topics,       \* run(): num_topics
    tech_level,       \* run(): tech_level
    requests,         \* the requests sent to the text-generation service
    replies,          \* what the service did with each request
    program_notes,    \* what generate_program_notes returned
    files,            \* the files written under output/
    exit_status,      \* << >> while running, <<n>> after ending with status n
    exception         \* the exception that left run(), "" if none

vars == <<pc, env_key, config_file, client, rss_feeds, line, sort_option,
          sorted_feeds, selected_indices, selected_feeds, weeks_choice,
          weeks_ago, now,
          fetched, entries, filtered_entries, all_entries, num_topics,
          tech_level, requests, replies, program_notes, files, exit_status,
          exception>>

-----------------------------------------------------------------------------
(* Bounds and program constants *)

ClockNow == 20000        \* the hour at which the session runs
BigFeedLen == 21         \* length of the long feed (above the article cap)

HoursPerWeek == 168      \* datetime.timedelta(weeks=weeks_ago)
MaxArticles == 20        \* entries[:20]
NameCut == 10            \* [:10] on each sanitized feed name
NamesInFile == 2         \* selected_feeds[:2]
MaxSortOption == 3
MaxWeeks == 4
MaxTopics == 5
MaxTech == 5

NoEntriesMsg == "No entries found for the selected time period."
FailedMsg == "Failed to generate program notes. Please try again."

-----------------------------------------------------------------------------
(* Python str operations on sequences of characters *)

\* The characters the model uses, in increasing code point order.
CodePoints == <<"\t", " ", "+", ",", "-", ".", "/",
                "0", "1", "2", "3", "4", "5", "6", "7", "8", "9",
                "B", "H", "M", "N", "S", "W",
                "\\", "_",
                "a", "b", "c", "d", "e", "g", "i", "k", "l", "n", "o",
                "p", "r", "s", "t", "v", "w", "x", "y", "z">>

ord(c) == CHOOSE i \in 1..Len(CodePoints) : CodePoints[i] = c

\* a < b for two sequences of numbers: by the first difference, a proper
\* prefix being smaller.
RECURSIVE seq_lt(_, _)
seq_lt(a, b) ==
    IF b = << >> THEN FALSE
    ELSE IF a = << >> THEN TRUE
    ELSE IF Head(a) # Head(b) THEN Head(a) < Head(b)
    ELSE seq_lt(Tail(a), Tail(b))

\* the code points of a str
codes(s) == [i \in 1..Len(s) |-> ord(s[i])]

\* a < b for two str: by code point
str_lt(a, b) == seq_lt(codes(a), codes(b))

\* s.replace(old, new) for a one-character old.
replace(s, old, new) == [i \in 1..Len(s) |-> IF s[i] = old THEN new ELSE s[i]]

\* s[:n]
prefix(s, n) == SubSeq(s, 1, IF Len(s) < n THEN Len(s) ELSE n)

\* the whitespace characters of the alphabet
Whitespace == {" ", "\t"}

RECURSIVE lstrip(_)
lstrip(s) == IF s # << >> /\ Head(s) \in Whitespace THEN lstrip(Tail(s)) ELSE s

RECURSIVE rstrip(_)
rstrip(s) ==
    IF s # << >> /\ s[Len(s)] \in Whitespace
    THEN rstrip(SubSeq(s, 1, Len(s) - 1))
    ELSE s

strip(s) == rstrip(lstrip(s))

\* s.split(sep): the pieces between the separators, always at least one.
RECURSIVE split(_, _)
split(s, sep) ==
    IF \E i \in 1..Len(s) : s[i] = sep
    THEN LET i == CHOOSE k \in 1..Len(s) :
                      s[k] = sep /\ \A j \in 1..(k - 1) : s[j] # sep
         IN <<SubSeq(s, 1, i - 1)>> \o split(SubSeq(s, i + 1, Len(s)), sep)
    ELSE <<s>>

Digits == {"0", "1", "2", "3", "4", "5", "6", "7", "8", "9"}
digit(c) == ord(c) - ord("0")

RECURSIVE digits_value(_, _)
digits_value(s, acc) ==
    IF s = << >> THEN acc ELSE digits_value(Tail(s), 10 * acc + digit(Head(s)))

\* int(s): surrounding whitespace dropped, an optional sign, then digits
\* with single underscores allowed between two digits; anything else raises
\* ValueError.
int(s) ==
    LET t == strip(s)
        signed == t # << >> /\ Head(t) \in {"+", "-"}
        d == IF signed THEN Tail(t) ELSE t
        literal == /\ d # << >>
                   /\ \A i \in 1..Len(d) : d[i] \in Digits \cup {"_"}
                   /\ d[1] # "_" /\ d[Len(d)] # "_"
                   /\ \A i \in 1..(Len(d) - 1) : ~(d[i] = "_" /\ d[i + 1] = "_")
        n == digits_value(SelectSeq(d, LAMBDA c : c # "_"), 0)
    IN IF literal
       THEN [exc |-> "", val |-> IF signed /\ Head(t) = "-" THEN 0 - n ELSE n]
       ELSE [exc |-> "ValueError", val |-> 0]

-----------------------------------------------------------------------------
(* Dates *)

\* datetime.datetime(*t[:6], tzinfo=utc) for a structured time t
from_struct(t) == [exc |-> "", aware |-> TRUE, wall |-> t, off |-> 0]

\* dateutil parser.parse(text): raises TypeError on None and ParserError on
\* text it cannot read, gives a naive datetime for text without timezone and
\* an aware one otherwise.
parser_parse(text) ==
    CASE text.kind = "none" ->
            [exc |-> "TypeError", aware |-> FALSE, wall |-> 0, off |-> 0]
      [] text.kind = "bad" ->
            [exc |-> "ParserError", aware |-> FALSE, wall |-> 0, off |-> 0]
      [] text.kind = "naive" ->
            [exc |-> "", aware |-> FALSE, wall |-> text.wall, off |-> 0]
      [] OTHER ->
            [exc |-> "", aware |-> TRUE, wall |-> text.wall, off |-> text.off]

\* the instant an aware datetime denotes, the wall clock of a naive one
instant(dt) == IF dt.aware THEN dt.wall - dt.off ELSE dt.wall

\* a >= b / a < b on datetimes: ordering a naive with an aware one raises.
datetime_cmp(a, b) ==
    IF a.aware # b.aware THEN [exc |-> "TypeError", ge |-> FALSE]
    ELSE [exc |-> "", ge |-> instant(a) >= instant(b)]

\* datetime.datetime.now(utc) - timedelta(weeks=weeks)
cutoff_date(clock, weeks) ==
    [exc |-> "", aware |-> TRUE, wall |-> clock - HoursPerWeek * weeks, off |-> 0]

-----------------------------------------------------------------------------
(* filter_entries_by_date *)

NoDate == [exc |-> "NoDate", aware |-> FALSE, wall |-> 0, off |-> 0]

\* The if/elif chain: the date the filter takes for an entry, exc "NoDate"
\* when the chain ends in the else branch, the parser's exception when the
\* chosen text cannot be parsed.
pub_date(entry) ==
    IF entry.published_parsed # << >> THEN from_struct(entry.published_parsed[1])
    ELSE IF entry.published # << >> THEN parser_parse(entry.published[1])
    ELSE IF entry.updated_parsed # << >> THEN from_struct(entry.updated_parsed[1])
    ELSE IF entry.updated # << >> THEN parser_parse(entry.updated[1])
    ELSE NoDate

\* What the loop body does with one entry: "kept" (appended), "old" (date
\* before the cutoff), "no_date" (else branch, continue), "error" (the
\* except branch: the parser raised, or the comparison did).
entry_outcome(entry, cutoff) ==
    LET d == pub_date(entry) IN
    IF d.exc = "NoDate" THEN "no_date"
    ELSE IF d.exc # "" THEN "error"
    ELSE LET c == datetime_cmp(d, cutoff) IN
         IF c.exc # "" THEN "error"
         ELSE IF c.ge THEN "kept" ELSE "old"

filter_entries_by_date(ents, weeks, clock) ==
    LET cutoff == cutoff_date(clock, weeks)
    IN SelectSeq(ents, LAMBDA e : entry_outcome(e, cutoff) = "kept")

-----------------------------------------------------------------------------
(* The feed registry: __init__, load_rss_feeds, sort_feeds *)

Feed(name, url) == [name |-> name, url |-> url]

\* the dict literal of __init__, in insertion order
DefaultFeeds ==
    [type |-> "dict",
     items |-> <<Feed(<<"S","t","a","c","k","e","r"," ","N","e","w","s">>,
                      "https://stacker.news/rss"),
                 Feed(<<"H","a","c","k","e","r"," ","N","e","w","s">>,
                      "https://news.ycombinator.com/rss"),
                 Feed(<<"B","i","t","c","o","i","n"," ",
                        "M","a","g","a","z","i","n","e">>,
                      "https://bitcoinmagazine.com/.rss/full/")>>]

EmptyDict == [type |-> "dict", items |-> << >>]

\* os.getenv gives None when the variable is not set
NoneKey == "<None>"
EnvKeys == {NoneKey, "", "sk-ant-key"}

\* "not x" for what os.getenv returns
not_key(k) == k = NoneKey \/ k = ""

\* "not x" for a decoded JSON container
not_value(v) == v.items = << >>

\* json.load succeeds on any JSON document, whatever its top-level type;
\* a missing file and an undecodable one both end in {}.
load_rss_feeds(file) ==
    CASE file.kind = "missing" -> EmptyDict
      [] file.kind = "invalid" -> EmptyDict
      [] OTHER -> file.value

\* key a < key b.  A key is a sequence of numbers: the code points of a
\* str key, the single instant of a datetime key.
key_lt(a, b) == seq_lt(a, b)

\* sorted(s, key=...) / list.sort(key=...): keys[i] is the key of s[i].
\* The sort is stable, and with reverse=True equal keys keep their order
\* too: the element at index i lands after every element that sorts before
\* it and after the earlier elements with an equal key.
sorted(s, keys, reverse) ==
    LET n == Len(s)
        first(j, i) == IF reverse THEN key_lt(keys[i], keys[j])
                       ELSE key_lt(keys[j], keys[i])
        tie(j, i) == ~key_lt(keys[i], keys[j]) /\ ~key_lt(keys[j], keys[i])
        rank == << >> \o
                [i \in 1..n |->
                    1 + Cardinality({j \in 1..n :
                                        first(j, i) \/ (tie(j, i) /\ j < i)})]
    IN [r \in 1..n |-> s[CHOOSE i \in 1..n : rank[i] = r]]

sort_feeds(feeds, option) ==
    IF feeds.type # "dict"
    THEN [exc |-> "AttributeError", val |-> << >>]
    ELSE LET names == << >> \o [i \in 1..Len(feeds.items) |->
                                   codes(feeds.items[i].name)] IN
         [exc |-> "",
          val |-> CASE option = 1 -> sorted(feeds.items, names, FALSE)
                    [] option = 2 -> sorted(feeds.items, names, TRUE)
                    [] OTHER -> feeds.items]

-----------------------------------------------------------------------------
(* fetch_rss_feed and the combined sort of run() *)

\* feedparser.parse either raises (caught: []) or gives the feed's entries.
fetch_rss_feed(outcome) == IF outcome.kind = "error" THEN << >> ELSE outcome.entries

\* entry['source_name'] = feed_name
tag_source(ents, name) ==
    [i \in 1..Len(ents) |-> [ents[i] EXCEPT !.source_name = <<name>>]]

EpochText == [kind |-> "naive", wall |-> 0, off |-> 0]    \* '1970-01-01'

\* entry.get('published', entry.get('updated', '1970-01-01'))
sort_text(entry) ==
    IF entry.published # << >> THEN entry.published[1]
    ELSE IF entry.updated # << >> THEN entry.updated[1]
    ELSE EpochText

sort_key(entry) == parser_parse(sort_text(entry))

\* s reversed
reverse_slice(s) == [i \in 1..Len(s) |-> s[Len(s) + 1 - i]]

\* The state of a list after a sort that raised is only documented as
\* "partially modified": it depends on the list.sort of the interpreter.
\* The model follows the two list.sort algorithms of CPython, which differ
\* in how the first run is found: the one up to 3.12 and the one from 3.13.
SortVariants == {"until_3_12", "from_3_13"}

\* The sort works on an order p over the keys k: p[i] is the index of the
\* element now at position i.  positions a..b of p reversed:
reverse_part(p, a, b) ==
    << >> \o [i \in 1..Len(p) |-> IF a <= i /\ i <= b THEN p[a + b - i] ELSE p[i]]

\* The first run is extended while the next element is not smaller (desc
\* FALSE) or is smaller (desc TRUE) than the last one; n is its length so
\* far.  ended: the run was stopped by an element, not by the end.
RECURSIVE extend_run(_, _, _, _)
extend_run(k, p, n, desc) ==
    IF n = Len(p) THEN [exc |-> "", order |-> p, n |-> n, ended |-> FALSE]
    ELSE LET c == datetime_cmp(k[p[n + 1]], k[p[n]]) IN
         IF c.exc # "" THEN [exc |-> c.exc, order |-> p, n |-> n, ended |-> FALSE]
         ELSE IF (~c.ge) = desc THEN extend_run(k, p, n + 1, desc)
         ELSE [exc |-> "", order |-> p, n |-> n, ended |-> TRUE]

\* count_run up to CPython 3.12: the first comparison decides between an
\* ascending and a strictly descending run; a descending run is reversed
\* once it has been counted.
count_run_until_3_12(k) ==
    LET id == << >> \o [i \in 1..Len(k) |-> i] IN
    IF Len(k) <= 1 THEN [exc |-> "", order |-> id, n |-> Len(k)]
    ELSE LET c == datetime_cmp(k[2], k[1]) IN
         IF c.exc # "" THEN [exc |-> c.exc, order |-> id, n |-> 1]
         ELSE LET r == extend_run(k, id, 2, ~c.ge) IN
              [exc |-> r.exc,
               order |-> IF r.exc = "" /\ ~c.ge THEN reverse_part(id, 1, r.n)
                         ELSE id,
               n |-> r.n]

\* the last neq + 1 elements before position n + 1, all equal, reversed
reverse_last_neq(p, n, neq) == IF neq > 0 THEN reverse_part(p, n - neq, n) ELSE p

\* count_run from CPython 3.13, the descending part: equal neighbours are
\* counted in neq and their group is reversed on the fly; larger: the run
\* is over.
RECURSIVE descend_run(_, _, _, _)
descend_run(k, p, n, neq) ==
    IF n = Len(p) THEN [exc |-> "", order |-> p, n |-> n, neq |-> neq]
    ELSE LET smaller == datetime_cmp(k[p[n + 1]], k[p[n]]) IN
         IF smaller.exc # ""
         THEN [exc |-> smaller.exc, order |-> p, n |-> n, neq |-> neq]
         ELSE IF ~smaller.ge
         THEN descend_run(k, reverse_last_neq(p, n, neq), n + 1, 0)
         ELSE LET larger == datetime_cmp(k[p[n]], k[p[n + 1]]) IN
              IF larger.exc # ""
              THEN [exc |-> larger.exc, order |-> p, n |-> n, neq |-> neq]
              ELSE IF ~larger.ge
              THEN [exc |-> "", order |-> p, n |-> n, neq |-> neq]
              ELSE descend_run(k, p, n + 1, neq + 1)

\* count_run from CPython 3.13, after the descending part down: its groups
\* of equal elements and then the run are reversed, and the run is extended
\* by the ascending elements that follow.
after_descent(k, down) ==
    IF down.exc # "" THEN [exc |-> down.exc, order |-> down.order, n |-> down.n]
    ELSE LET r == extend_run(k,
                             reverse_part(reverse_last_neq(down.order, down.n,
                                                           down.neq),
                                          1, down.n),
                             down.n, FALSE)
         IN [exc |-> r.exc, order |-> r.order, n |-> r.n]

\* count_run from CPython 3.13, after the ascending part up over the
\* untouched order id: the run is ascending unless its elements are all
\* equal (the first is not smaller than the last) and a smaller one
\* follows; then the equal elements are reversed and a descending run
\* starts.
after_ascent(k, id, up) ==
    IF up.exc # "" \/ ~up.ended THEN [exc |-> up.exc, order |-> id, n |-> up.n]
    ELSE IF up.n = 1 THEN after_descent(k, descend_run(k, id, 2, 0))
    ELSE LET first == datetime_cmp(k[1], k[up.n]) IN
         IF first.exc # "" THEN [exc |-> first.exc, order |-> id, n |-> up.n]
         ELSE IF ~first.ge THEN [exc |-> "", order |-> id, n |-> up.n]
         ELSE after_descent(k, descend_run(k, reverse_part(id, 1, up.n),
                                           up.n + 1, 0))

\* count_run from CPython 3.13: an ascending run is tried first.
count_run_from_3_13(k) ==
    LET id == << >> \o [i \in 1..Len(k) |-> i] IN
    IF Len(k) <= 1 THEN [exc |-> "", order |-> id, n |-> Len(k)]
    ELSE after_ascent(k, id, extend_run(k, id, 1, FALSE))

count_run(k, variant) ==
    IF variant = "until_3_12" THEN count_run_until_3_12(k)
    ELSE count_run_from_3_13(k)

\* list.sort's binarysort, the search: where the pivot goes among the
\* sorted positions l..(r - 1) of the order p; exc when a comparison raised.
RECURSIVE bisect(_, _, _, _, _)
bisect(k, p, pivot, l, r) ==
    LET m == l + ((r - l) \div 2)
        c == datetime_cmp(k[pivot], k[p[m]])
    IN IF c.exc # "" THEN [exc |-> c.exc, at |-> l]
       ELSE LET l2 == IF ~c.ge THEN l ELSE m + 1
                r2 == IF ~c.ge THEN m ELSE r
            IN IF l2 < r2 THEN bisect(k, p, pivot, l2, r2)
               ELSE [exc |-> "", at |-> l2]

\* list.sort's binarysort: the elements from position start on are inserted
\* one by one into the sorted positions before them; a comparison that
\* raises leaves the order as the last completed insertion made it.
RECURSIVE binarysort(_, _, _)
binarysort(k, p, start) ==
    IF start > Len(p) THEN [exc |-> "", order |-> p]
    ELSE LET b == bisect(k, p, p[start], 1, start) IN
         IF b.exc # "" THEN [exc |-> b.exc, order |-> p]
         ELSE binarysort(k,
                         SubSeq(p, 1, b.at - 1) \o <<p[start]>>
                             \o SubSeq(p, b.at, start - 1)
                             \o SubSeq(p, start + 1, Len(p)),
                         start + 1)

\* all_entries.sort(key=..., reverse=True), for the lists of fewer than 64
\* entries the model sorts (one run, no merge).  Every key is computed first,
\* in list order: a key that raises leaves the list as it was.  Then the
\* list is reversed, sorted ascending (count_run, then binarysort) and
\* reversed again; a naive key compared with an aware one raises TypeError
\* and the list stays as the sort had rearranged it by then.
sort_entries(ents, variant) ==
    LET n == Len(ents)
        keys == << >> \o [i \in 1..n |-> sort_key(ents[i])]
        bad == {i \in 1..n : keys[i].exc # ""}
        k == reverse_slice(keys)
        run == count_run(k, variant)
        done == IF run.exc # "" THEN [exc |-> run.exc, order |-> run.order]
                ELSE binarysort(k, run.order, run.n + 1)
        items == reverse_slice(ents)
    IN IF bad # {}
       THEN [exc |-> keys[CHOOSE i \in bad : \A j \in bad : i <= j].exc,
             val |-> ents]
       ELSE [exc |-> done.exc,
             val |-> reverse_slice([i \in 1..n |-> items[done.order[i]]])]

-----------------------------------------------------------------------------
(* generate_program_notes *)

GeneratedText == "# Weekly Podcast Program Notes ..."

UnknownSource == <<"U","n","k","n","o","w","n"," ","s","o","u","r","c","e">>

\* What messages.create / response.content[0].text can do: answer with
\* text, raise (network, authentication, quota), or answer with an empty
\* content list, on which [0] raises IndexError.
ServiceOutcomes == {"text", "api_error", "no_content"}

\* One "Article i" block of the prompt: number, title, source and the raw
\* date text shown (published, else updated, else nothing).
article_block(i, entry) ==
    [n |-> i,
     title |-> entry.title,
     source |-> IF entry.source_name # << >> THEN entry.source_name[1]
                ELSE UnknownSource,
     published |-> IF entry.published # << >> THEN entry.published
                   ELSE entry.updated]

\* generate_program_notes answering an empty reply with empty text instead
\* of the failure string.
generate_program_notes_empty_reply(ents, topics, tech, service) ==
    IF ents = << >> THEN [notes |-> NoEntriesMsg, sent |-> << >>]
    ELSE LET used == prefix(ents, MaxArticles)
             request == [model |-> "claude-3-7-sonnet-latest",
                         num_topics |-> topics,
                         tech_level |-> tech,
                         articles |-> [i \in 1..Len(used) |->
                                          article_block(i, used[i])]]
         IN [notes |-> CASE service = "text" -> GeneratedText
                         [] service = "api_error" -> FailedMsg
                         [] OTHER -> "",
             sent |-> <<request>>]

\* generate_program_notes without the test for an empty entry sequence.
generate_program_notes_no_guard(ents, topics, tech, service) ==
    LET used == prefix(ents, MaxArticles)
        request == [model |-> "claude-3-7-sonnet-latest",
                    num_topics |-> topics,
                    tech_level |-> tech,
                    articles |-> [i \in 1..Len(used) |->
                                     article_block(i, used[i])]]
    IN [notes |-> CASE service = "text" -> GeneratedText
                    [] service = "api_error" -> FailedMsg
                    [] OTHER -> FailedMsg,
        sent |-> <<request>>]

\* The result: the text returned and the requests sent (none or one).
generate_program_notes(ents, topics, tech, service) ==
    IF ents = << >> THEN [notes |-> NoEntriesMsg, sent |-> << >>]
    ELSE LET used == prefix(ents, MaxArticles)
             request == [model |-> "claude-3-7-sonnet-latest",
                         num_topics |-> topics,
                         tech_level |-> tech,
                         articles |-> [i \in 1..Len(used) |->
                                          article_block(i, used[i])]]
         IN [notes |-> CASE service = "text" -> GeneratedText
                         [] service = "api_error" -> FailedMsg
                         [] OTHER -> FailedMsg,
             sent |-> <<request>>]

-----------------------------------------------------------------------------
(* The output file of run() *)

RECURSIVE str(_)
\* str(n) for n >= 0
str(n) ==
    LET d == <<CodePoints[ord("0") + (n % 10)]>>
    IN IF n < 10 THEN d ELSE str(n \div 10) \o d

RECURSIVE join(_, _)
\* sep.join(parts)
join(parts, sep) ==
    IF parts = << >> THEN << >>
    ELSE IF Len(parts) = 1 THEN parts[1]
    ELSE parts[1] \o sep \o join(Tail(parts), sep)

\* name_fragment without the replacement of the backslash.
name_fragment_keeps_backslash(name) ==
    prefix(replace(replace(name, " ", "_"), "/", "_"), NameCut)

\* name.replace(' ', '_').replace('/', '_').replace('\\', '_')[:10]
name_fragment(name) ==
    prefix(replace(replace(replace(name, " ", "_"), "/", "_"), "\\", "_"),
           NameCut)

feed_name_part(selected) ==
    LET shown == prefix(selected, NamesInFile)
        joined == join([i \in 1..Len(shown) |-> name_fragment(shown[i].name)],
                       <<"_">>)
    IN IF Len(selected) > NamesInFile
       THEN joined \o <<"_","a","n","d","_">>
                   \o str(Len(selected) - NamesInFile)
                   \o <<"_","m","o","r","e">>
       ELSE joined

\* The clock reading in digits stands for strftime("%Y%m%d_%H%M%S").
timestamp(clock) == str(clock)

\* os.path.join("output", f"{feed_name_part}_{timestamp}.md") and the text
write_file(selected, clock, text) ==
    [dir |-> "output",
     name_part |-> feed_name_part(selected),
     filename |-> feed_name_part(selected) \o <<"_">> \o timestamp(clock)
                      \o <<".","m","d">>,
     content |-> text]

-----------------------------------------------------------------------------
(* The environment: files, feeds, console lines, service answers *)

Entry(title, pp, p, up, u) ==
    [title |-> title, published_parsed |-> pp, published |-> p,
     updated_parsed |-> up, updated |-> u, source_name |-> << >>]

Aware(wall, off) == [kind |-> "aware", wall |-> wall, off |-> off]
Naive(wall) == [kind |-> "naive", wall |-> wall, off |-> 0]
BadText == [kind |-> "bad", wall |-> 0, off |-> 0]
NoneText == [kind |-> "none", wall |-> 0, off |-> 0]

\* The hour d hours after the cutoff of a w-week window.
D(w, d) == ClockNow - HoursPerWeek * w + d

\* An RSS feed, oldest entry first: one entry of three weeks ago written
\* with a +02:00 offset, one recent, one Atom-style entry (updated only) on
\* the two-week cutoff, one with no date at all.
FeedA ==
    <<Entry(<<"a", 1>>, <<D(3, 2)>>, <<Aware(D(3, 2) + 2, 2)>>, << >>, << >>),
      Entry(<<"a", 2>>, <<D(1, 5)>>, <<Aware(D(1, 5), 0)>>, << >>, << >>),
      Entry(<<"a", 3>>, << >>, << >>, <<D(2, 0)>>, <<Aware(D(2, 0), 0)>>),
      Entry(<<"a", 4>>, << >>, << >>, << >>, << >>)>>

\* A feed whose dates dateutil reads as naive: "... 10:00 EST" (feedparser
\* knows EST and gives the structured time five hours later, dateutil drops
\* the abbreviation) and a date with no zone (feedparser takes it as UTC).
FeedB ==
    <<Entry(<<"b", 1>>, <<D(1, 25)>>, <<Naive(D(1, 20))>>, << >>, << >>),
      Entry(<<"b", 2>>, <<D(1, 22)>>, <<Naive(D(1, 22))>>, << >>, << >>)>>

\* A feed with a date in a format feedparser reads and dateutil does not.
FeedC == <<Entry(<<"c", 1>>, <<D(1, 3)>>, <<BadText>>, << >>, << >>)>>

\* A feed the filter keeps nothing of: one entry of five weeks ago, older
\* than every window, and one recent Atom-style entry whose only date is an
\* updated text with no zone.
FeedD ==
    <<Entry(<<"d", 1>>, <<D(5, 1)>>, <<Aware(D(5, 1), 0)>>, << >>, << >>),
      Entry(<<"d", 2>>, << >>, << >>, << >>, <<Naive(D(1, 4))>>)>>

\* A long feed, oldest entry first, every entry within the last week; its
\* two oldest entries were published in the same hour.
BigFeed ==
    [i \in 1..BigFeedLen |->
        LET h == IF i = 1 THEN 2 ELSE i IN
        Entry(<<"g", i>>, <<D(1, h)>>, <<Aware(D(1, h), 0)>>, << >>, << >>)]

Fetched(f) == [kind |-> "feed", entries |-> f]
FetchError == [kind |-> "error", entries |-> << >>]

CustomFeeds ==
    [type |-> "dict",
     items |-> <<Feed(<<"a","/","b">>, "https://hn.example/rss"),
                 Feed(<<"B","i","t","c","o","i","n"," ","N","e","w","s","/",
                        "W","e","e","k","l","y">>, "https://btc.example/feed"),
                 Feed(<<"d","e","v","\\","o","p","s"," ","l","o","g">>,
                      "https://dev.example/atom")>>]

\* rss_feeds.json holding a JSON array instead of an object
ListOfUrls == [type |-> "list", items |-> <<"https://stacker.news/rss">>]

\* What a fetch of each URL can give: per registry, one feed that is down
\* or serves FeedA or FeedD, one that is empty or long, one that serves
\* FeedB or FeedC.
FetchOutcomes(url) ==
    CASE url \in {"https://stacker.news/rss", "https://hn.example/rss"} ->
            {FetchError, Fetched(FeedA), Fetched(FeedD)}
      [] url \in {"https://news.ycombinator.com/rss", "https://btc.example/feed"} ->
            {Fetched(<< >>), Fetched(BigFeed)}
      [] OTHER ->
            {Fetched(FeedB), Fetched(FeedC)}

ConfigFiles ==
    {[kind |-> "missing", value |-> EmptyDict],
     [kind |-> "invalid", value |-> EmptyDict],
     [kind |-> "json", value |-> EmptyDict],
     [kind |-> "json", value |-> CustomFeeds],
     [kind |-> "json", value |-> ListOfUrls]}

\* Lines typed at the numeric prompts that no prompt accepts: empty, not
\* a number, a decimal, a number ending in an underscore, and ten written
\* with an underscore between its digits.
BadLines ==
    {<< >>, <<"x">>, <<"2", ".", "5">>, <<"1", "_">>, <<"1", "_", "0">>}

\* What input() meets when the console has ended: it raises EOFError.
EndOfInput == <<"<EOF>">>

\* One written with an underscore between two digits, which int() reads.
UnderscoredOne == <<"0", "_", "1">>

\* Lines typed at each numeric prompt: the bad ones, accepted numbers (both
\* ends of the range among them) and the numbers just outside the range.
SortLines ==
    BadLines \cup {<<"0">>, <<"1">>, <<"2">>, <<"3">>, <<"4">>, UnderscoredOne,
                   <<"\t", "2", " ">>}
WeeksLines ==
    BadLines \cup {<<"0">>, <<"1">>, <<"2">>, <<"3">>, <<"4">>, <<"5">>,
                   UnderscoredOne}
TopicsLines ==
    BadLines \cup {<<"0">>, <<"3">>, <<"5">>, <<"6">>, UnderscoredOne}
TechLines ==
    BadLines \cup {<<"-", "1">>, <<"0">>, <<"2">>, <<"5">>, <<"6">>}

\* Lines typed at the feed-selection prompt.
SelectionLines ==
    {<< >>, <<"x">>, <<"0">>, <<"4">>, <<"1", ",", "x">>, <<"1", ",", ",", "2">>,
     <<"2", ",", "7">>, <<"_", "2">>,
     <<"2">>, <<"2", ",", "2">>, <<" ", "1", " ", ",", " ", "3">>,
     <<"3", ",", "1", ",", "2">>, <<"0", "_", "2">>,
     <<"1", ",", "\t", "0", "_", "3">>}

-----------------------------------------------------------------------------
(* The process: __main__, __init__ and run() *)

\* exit_status while the process runs; <<n>> once it ended with status n
Running == << >>

Init ==
    /\ pc = "start"
    /\ env_key \in EnvKeys
    /\ config_file \in ConfigFiles
    /\ client = FALSE
    /\ rss_feeds = EmptyDict
    /\ line = << >>
    /\ sort_option = 0
    /\ sorted_feeds = << >>
    /\ selected_indices = << >>
    /\ selected_feeds = << >>
    /\ weeks_choice = 0
    /\ weeks_ago = 0
    /\ now = ClockNow
    /\ fetched = << >>
    /\ entries = << >>
    /\ filtered_entries = << >>
    /\ all_entries = << >>
    /\ num_topics = 0
    /\ tech_level = 0
    /\ requests = << >>
    /\ replies = << >>
    /\ program_notes = ""
    /\ files = << >>
    /\ exit_status = Running
    /\ exception = ""

\* Main with the credential check left out.
Main_without_key_check ==
    /\ pc = "start"
    /\ client' = TRUE
    /\ rss_feeds' = LET loaded == load_rss_feeds(config_file)
                    IN IF not_value(loaded) THEN DefaultFeeds ELSE loaded
    /\ pc' = "sort_prompt"
    /\ UNCHANGED <<env_key, config_file, line, sort_option, sorted_feeds,
                   selected_indices, selected_feeds, weeks_choice, weeks_ago, now, fetched,
                   entries, filtered_entries, all_entries, num_topics,
                   tech_level, requests, replies, program_notes, files,
                   exit_status, exception>>

\* RSSPodcastNoteGenerator(): the credential check, the client, the registry.
Main ==
    /\ pc = "start"
    /\ IF not_key(env_key)
       THEN /\ pc' = "exited"
            /\ exit_status' = <<1>>
            /\ UNCHANGED <<client, rss_feeds>>
       ELSE /\ client' = TRUE
            /\ rss_feeds' = LET loaded == load_rss_feeds(config_file)
                            IN IF not_value(loaded) THEN DefaultFeeds ELSE loaded
            /\ pc' = "sort_prompt"
            /\ UNCHANGED exit_status
    /\ UNCHANGED <<env_key, config_file, line, sort_option, sorted_feeds,
                   selected_indices, selected_feeds, weeks_choice, weeks_ago, now, fetched,
                   entries, filtered_entries, all_entries, num_topics,
                   tech_level, requests, replies, program_notes, files, exception>>

\* menu_choice with the upper end of the range off by one.
menu_choice_off_by_one(l, lo, hi) ==
    LET r == int(l)
    IN [parsed |-> r.exc = "",
        ok |-> r.exc = "" /\ lo <= r.val /\ r.val <= hi + 1,
        val |-> r.val]

\* int(input(...)) followed by the range test lo <= n <= hi: parsed says
\* that int() returned (the variable was assigned), ok that the loop ends.
menu_choice(l, lo, hi) ==
    LET r == int(l)
    IN [parsed |-> r.exc = "",
        ok |-> r.exc = "" /\ lo <= r.val /\ r.val <= hi,
        val |-> r.val]

\* One pass of the "Select sorting option" loop, and sort_feeds after it.
\* sort_option is assigned before the range test, so a number outside the
\* range stays in it until the next line.
ReadSortOption(l) ==
    /\ pc = "sort_prompt"
    /\ IF l = EndOfInput
       THEN /\ pc' = "crashed"
            /\ exception' = "EOFError"
            /\ exit_status' = <<1>>
            /\ UNCHANGED <<line, sort_option, sorted_feeds>>
       ELSE
       /\ line' = l
       /\ LET c == menu_choice(l, 1, MaxSortOption) IN
          IF c.ok
          THEN LET r == sort_feeds(rss_feeds, c.val) IN
               /\ sort_option' = c.val
               /\ IF r.exc # ""
                  THEN /\ pc' = "crashed"
                       /\ exception' = r.exc
                       /\ exit_status' = <<1>>
                       /\ UNCHANGED sorted_feeds
                  ELSE /\ pc' = "select_prompt"
                       /\ sorted_feeds' = r.val
                       /\ UNCHANGED <<exception, exit_status>>
          ELSE /\ sort_option' = IF c.parsed THEN c.val ELSE sort_option
               /\ UNCHANGED <<pc, sorted_feeds, exception, exit_status>>
    /\ UNCHANGED <<env_key, config_file, client, rss_feeds, selected_indices,
                   selected_feeds, weeks_choice, weeks_ago, now, fetched, entries,
                   filtered_entries, all_entries, num_topics, tech_level,
                   requests, replies, program_notes, files>>

\* [int(idx.strip()) - 1 for idx in selections.split(',')] and its check:
\* ok is FALSE when an int() raised or an index is outside the list.
parse_selection(l, n) ==
    LET pieces == split(strip(l), ",")
        parsed == [i \in 1..Len(pieces) |-> int(strip(pieces[i]))]
        indices == [i \in 1..Len(pieces) |-> parsed[i].val - 1]
    IN IF \E i \in 1..Len(pieces) : parsed[i].exc # ""
       THEN [ok |-> FALSE, val |-> << >>]
       ELSE IF \E i \in 1..Len(indices) : indices[i] < 0 \/ indices[i] >= n
       THEN [ok |-> FALSE, val |-> << >>]
       ELSE [ok |-> indices # << >>, val |-> indices]

\* One pass of the feed-selection loop, and selected_feeds after it.
ReadSelection(l) ==
    /\ pc = "select_prompt"
    /\ IF l = EndOfInput
       THEN /\ pc' = "crashed"
            /\ exception' = "EOFError"
            /\ exit_status' = <<1>>
            /\ UNCHANGED <<line, selected_indices, selected_feeds>>
       ELSE
       /\ line' = l
       /\ UNCHANGED <<exit_status, exception>>
       /\ LET s == parse_selection(l, Len(sorted_feeds)) IN
          IF s.ok
          THEN /\ selected_indices' = s.val
               /\ selected_feeds' =
                      [i \in 1..Len(s.val) |-> sorted_feeds[s.val[i] + 1]]
               /\ pc' = "weeks_prompt"
          ELSE UNCHANGED <<pc, selected_indices, selected_feeds>>
    /\ UNCHANGED <<env_key, config_file, client, rss_feeds, sort_option,
                   sorted_feeds, weeks_choice, weeks_ago, now, fetched, entries,
                   filtered_entries, all_entries, num_topics, tech_level,
                   requests, replies, program_notes, files>>

\* One pass of the "Select time period" loop: weeks_choice is assigned
\* whenever int() returns, weeks_ago only when the number is in the range.
ReadWeeks(l) ==
    /\ pc = "weeks_prompt"
    /\ IF l = EndOfInput
       THEN /\ pc' = "crashed"
            /\ exception' = "EOFError"
            /\ exit_status' = <<1>>
            /\ UNCHANGED <<line, weeks_choice, weeks_ago>>
       ELSE
       /\ line' = l
       /\ UNCHANGED <<exit_status, exception>>
       /\ LET c == menu_choice(l, 1, MaxWeeks) IN
          IF c.ok
          THEN /\ weeks_choice' = c.val
               /\ weeks_ago' = c.val
               /\ pc' = "fetching"
          ELSE /\ weeks_choice' = IF c.parsed THEN c.val ELSE weeks_choice
               /\ UNCHANGED <<pc, weeks_ago>>
    /\ UNCHANGED <<env_key, config_file, client, rss_feeds, sort_option,
                   sorted_feeds, selected_indices, selected_feeds, now, fetched,
                   entries, filtered_entries, all_entries, num_topics,
                   tech_level, requests, replies, program_notes, files>>

\* What follows the fetch loop: the early return on an empty merge, else
\* the combined sort, which either raises or leads to the topics prompt.
after_fetch(merged, variant) ==
    IF merged = << >>
    THEN [pc |-> "returned", all |-> merged, exc |-> "", status |-> <<0>>]
    ELSE LET r == sort_entries(merged, variant) IN
         IF r.exc # ""
         THEN [pc |-> "crashed", all |-> r.val, exc |-> r.exc, status |-> <<1>>]
         ELSE [pc |-> "topics_prompt", all |-> r.val, exc |-> "", status |-> Running]

\* One pass of the fetch loop for the next selected feed; after the last
\* feed, the rest of run() up to the next prompt.  entries is what the fetch
\* returned, tagged in place when it is not empty; filtered_entries is
\* assigned only then.
FetchFeed ==
    /\ pc = "fetching"
    /\ \E outcome \in FetchOutcomes(selected_feeds[Len(fetched) + 1].url) :
       LET i == Len(fetched) + 1
           feed == selected_feeds[i]
           got == fetch_rss_feed(outcome)
           tagged == tag_source(got, feed.name)
           kept == filter_entries_by_date(tagged, weeks_ago, now)
           merged == IF got # << >> THEN all_entries \o kept ELSE all_entries
       IN /\ fetched' = Append(fetched, feed.url)
          /\ entries' = tagged
          /\ filtered_entries' = IF got # << >> THEN kept ELSE filtered_entries
          /\ IF i < Len(selected_feeds)
             THEN /\ all_entries' = merged
                  /\ UNCHANGED <<pc, exception, exit_status>>
             ELSE \E variant \in SortVariants :
                  LET a == after_fetch(merged, variant) IN
                  /\ all_entries' = a.all
                  /\ pc' = a.pc
                  /\ exception' = a.exc
                  /\ exit_status' = a.status
    /\ UNCHANGED <<env_key, config_file, client, rss_feeds, line, sort_option,
                   sorted_feeds, selected_indices, selected_feeds, weeks_choice, weeks_ago,
                   now, num_topics, tech_level,
                   requests, replies, program_notes, files>>

\* One pass of the "How many topics" loop; num_topics is assigned whenever
\* int() returns.
ReadTopics(l) ==
    /\ pc = "topics_prompt"
    /\ IF l = EndOfInput
       THEN /\ pc' = "crashed"
            /\ exception' = "EOFError"
            /\ exit_status' = <<1>>
            /\ UNCHANGED <<line, num_topics>>
       ELSE
       /\ line' = l
       /\ UNCHANGED <<exit_status, exception>>
       /\ LET c == menu_choice(l, 1, MaxTopics) IN
          IF c.ok
          THEN /\ num_topics' = c.val
               /\ pc' = "tech_prompt"
          ELSE /\ num_topics' = IF c.parsed THEN c.val ELSE num_topics
               /\ UNCHANGED pc
    /\ UNCHANGED <<env_key, config_file, client, rss_feeds, sort_option,
                   sorted_feeds, selected_indices, selected_feeds, weeks_choice, weeks_ago,
                   now, fetched, entries, filtered_entries, all_entries,
                   tech_level, requests, replies, program_notes, files>>

\* One pass of the "Technical depth level" loop (tech_level is assigned
\* whenever int() returns); on a valid level the rest of run(): the
\* generation, the output file, the return.
ReadTech(l) ==
    /\ pc = "tech_prompt"
    /\ IF l = EndOfInput
       THEN /\ pc' = "crashed"
            /\ exception' = "EOFError"
            /\ exit_status' = <<1>>
            /\ UNCHANGED <<line, tech_level, requests, replies, program_notes,
                           files>>
       ELSE
       /\ line' = l
       /\ UNCHANGED exception
       /\ LET c == menu_choice(l, 0, MaxTech) IN
          IF c.ok
          THEN \E service \in ServiceOutcomes :
               LET g == generate_program_notes(all_entries, num_topics, c.val,
                                               service)
               IN /\ tech_level' = c.val
                  /\ requests' = requests \o g.sent
                  /\ replies' = replies \o [i \in 1..Len(g.sent) |-> service]
                  /\ program_notes' = g.notes
                  /\ files' = Append(files,
                                     write_file(selected_feeds, now, g.notes))
                  /\ pc' = "returned"
                  /\ exit_status' = <<0>>
          ELSE /\ tech_level' = IF c.parsed THEN c.val ELSE tech_level
               /\ UNCHANGED <<pc, requests, replies, program_notes, files,
                              exit_status>>
    /\ UNCHANGED <<env_key, config_file, client, rss_feeds, sort_option,
                   sorted_feeds, selected_indices, selected_feeds, weeks_choice, weeks_ago,
                   now, fetched, entries, filtered_entries, all_entries,
                   num_topics>>

Next ==
    \/ Main
    \/ \E l \in SortLines \cup {EndOfInput} : ReadSortOption(l)
    \/ \E l \in SelectionLines \cup {EndOfInput} : ReadSelection(l)
    \/ \E l \in WeeksLines \cup {EndOfInput} : ReadWeeks(l)
    \/ FetchFeed
    \/ \E l \in TopicsLines \cup {EndOfInput} : ReadTopics(l)
    \/ \E l \in TechLines \cup {EndOfInput} : ReadTech(l)

Spec == Init /\ [][Next]_vars

-----------------------------------------------------------------------------
(* filter_entries_by_date called on its own *)

StructDates == {<< >>, <<D(2, 0)>>, <<D(2, -1)>>}

\* Absent, None, unparseable, without zone, and three texts with an offset:
\* one whose instant is exactly the two-week cutoff, one written after the
\* cutoff but denoting an instant before it, one written before the cutoff
\* but denoting an instant after it.
TextDates ==
    {<< >>, <<NoneText>>, <<BadText>>, <<Naive(D(2, 0))>>,
     <<Aware(D(2, 0) + 2, 2)>>, <<Aware(D(2, 0), 2)>>, <<Aware(D(2, -3), -5)>>}

FilterInputs ==
    {<<Entry(<<"f", 1>>, pp, p, up, u)>> :
        pp \in StructDates, p \in TextDates, up \in StructDates, u \in TextDates}
    \cup {<< >>, FeedA, FeedB, FeedC, FeedA \o FeedB \o FeedC}

InitFilter ==
    /\ pc = "filter_call"
    /\ entries \in FilterInputs
    /\ weeks_choice = 0
    /\ weeks_ago \in 1..MaxWeeks
    /\ now = ClockNow
    /\ env_key = "sk-ant-key"
    /\ config_file = [kind |-> "missing", value |-> EmptyDict]
    /\ client = TRUE
    /\ rss_feeds = DefaultFeeds
    /\ line = << >>
    /\ sort_option = 0
    /\ sorted_feeds = << >>
    /\ selected_indices = << >>
    /\ selected_feeds = << >>
    /\ fetched = << >>
    /\ filtered_entries = << >>
    /\ all_entries = << >>
    /\ num_topics = 0
    /\ tech_level = 0
    /\ requests = << >>
    /\ replies = << >>
    /\ program_notes = ""
    /\ files = << >>
    /\ exit_status = Running
    /\ exception = ""

CallFilter ==
    /\ pc = "filter_call"
    /\ filtered_entries' = filter_entries_by_date(entries, weeks_ago, now)
    /\ pc' = "filter_done"
    /\ UNCHANGED <<env_key, config_file, client, rss_feeds, line, sort_option,
                   sorted_feeds, selected_indices, selected_feeds, weeks_choice, weeks_ago,
                   now, fetched, entries, all_entries, num_topics, tech_level,
                   requests, replies, program_notes, files, exit_status,
                   exception>>

NextFilter == CallFilter

SpecFilter == InitFilter /\ [][NextFilter]_vars

-----------------------------------------------------------------------------
(* generate_program_notes called on its own *)

\* A hand-built entry whose published key holds None.
NoneEntry ==
    Entry(<<"k", 1>>, <<D(1, 1)>>, <<NoneText>>, << >>, <<Aware(D(1, 1), 0)>>)

\* Entry lists of length 0, 1, 4, 20, 21 and 25.
GenerateInputs ==
    {<< >>, <<NoneEntry>>, FeedA, prefix(BigFeed, MaxArticles), BigFeed,
     BigFeed \o FeedA}

InitGenerate ==
    /\ pc = "generate_call"
    /\ all_entries \in GenerateInputs
    /\ num_topics \in 1..MaxTopics
    /\ tech_level \in 0..MaxTech
    /\ now = ClockNow
    /\ env_key = "sk-ant-key"
    /\ config_file = [kind |-> "missing", value |-> EmptyDict]
    /\ client = TRUE
    /\ rss_feeds = DefaultFeeds
    /\ line = << >>
    /\ sort_option = 0
    /\ sorted_feeds = << >>
    /\ selected_indices = << >>
    /\ selected_feeds = << >>
    /\ weeks_choice = 0
    /\ weeks_ago = 0
    /\ fetched = << >>
    /\ entries = << >>
    /\ filtered_entries = << >>
    /\ requests = << >>
    /\ replies = << >>
    /\ program_notes = ""
    /\ files = << >>
    /\ exit_status = Running
    /\ exception = ""

CallGenerate(service) ==
    /\ pc = "generate_call"
    /\ LET g == generate_program_notes(all_entries, num_topics, tech_level, service)
       IN /\ requests' = requests \o g.sent
          /\ replies' = replies \o [i \in 1..Len(g.sent) |-> service]
          /\ program_notes' = g.notes
    /\ pc' = "generate_done"
    /\ UNCHANGED <<env_key, config_file, client, rss_feeds, line, sort_option,
                   sorted_feeds, selected_indices, selected_feeds, weeks_choice, weeks_ago,
                   now, fetched, entries, filtered_entries, all_entries,
                   num_topics, tech_level, files, exit_status, exception>>

NextGenerate == \E s \in ServiceOutcomes : CallGenerate(s)

SpecGenerate == InitGenerate /\ [][NextGenerate]_vars

-----------------------------------------------------------------------------
(* Reference definitions used by the properties below.  They restate the   *)
(* documented behaviour and do not use the operators that model the code.  *)

RefStructOk(f) == f # << >>
RefTextOk(f) == f # << >> /\ f[1].kind \in {"naive", "aware"}

\* an entry with at least one source that is present and can be read
RefResolvable(e) ==
    \/ RefStructOk(e.published_parsed)
    \/ RefTextOk(e.published)
    \/ RefStructOk(e.updated_parsed)
    \/ RefTextOk(e.updated)

RefStructDate(f) == [aware |-> TRUE, wall |-> f[1], off |-> 0]
RefTextDate(f) ==
    [aware |-> f[1].kind = "aware", wall |-> f[1].wall,
     off |-> IF f[1].kind = "aware" THEN f[1].off ELSE 0]

\* the first source, in the documented order, that is present and readable
RefFirstDate(e) ==
    IF RefStructOk(e.published_parsed) THEN RefStructDate(e.published_parsed)
    ELSE IF RefTextOk(e.published) THEN RefTextDate(e.published)
    ELSE IF RefStructOk(e.updated_parsed) THEN RefStructDate(e.updated_parsed)
    ELSE IF RefTextOk(e.updated) THEN RefTextDate(e.updated)
    ELSE [aware |-> TRUE, wall |-> 0, off |-> 0]

\* the effective date in UTC hours (text without a zone read as UTC, an
\* entry with no date as the epoch)
RefEffective(e) == RefFirstDate(e).wall - RefFirstDate(e).off

RefIn(e, s) == \E j \in 1..Len(s) : s[j] = e

\* C1: once filter_entries_by_date has returned, every input entry with a
\* resolvable date source is in the result if and only if its effective
\* date (first resolvable source, in UTC) is at or after now - weeks_ago.
C1_IncludedIffInWindow ==
    pc = "filter_done" =>
        \A i \in 1..Len(entries) :
            RefResolvable(entries[i]) =>
                (RefIn(entries[i], filtered_entries)
                    <=> RefEffective(entries[i]) >= now - 168 * weeks_ago)

\* C9: for every entry handed to the filter, the date the filter resolves
\* is the first source, in the order published_parsed, published,
\* updated_parsed, updated, that is present and parseable; the filter
\* finds no date only when all four are absent or unparseable.
C9_FirstSuccessfulSourceWins ==
    pc = "filter_done" =>
        \A i \in 1..Len(entries) :
            LET e == entries[i]
                d == pub_date(e)
            IN IF RefResolvable(e)
               THEN /\ d.exc = ""
                    /\ d.aware = RefFirstDate(e).aware
                    /\ d.wall = RefFirstDate(e).wall
                    /\ d.off = RefFirstDate(e).off
               ELSE d.exc # ""

RefKeyMissing == env_key \in {NoneKey, ""}

\* C2: the process ends abnormally only through the missing-credential
\* exit: whenever it has ended after reading the lines it was given (the
\* console did not end at a prompt), either run() returned normally or the
\* credential was missing and the startup check exited.
C2_OnlyCredentialExitIsAbnormal ==
    (exit_status # Running /\ exception # "EOFError") =>
        \/ pc = "returned" /\ exit_status = <<0>> /\ exception = ""
        \/ pc = "exited" /\ RefKeyMissing

\* C3: with the credential absent the process only ever exits with status
\* 1: no client is created, no feed list is loaded, run() reads no line, no
\* feed is fetched and no generation request is sent.
C3_NoKeyNoNetwork ==
    RefKeyMissing =>
        /\ pc \in {"start", "exited"}
        /\ pc = "exited" => exit_status = <<1>>
        /\ pc = "start" => exit_status = Running
        /\ client = FALSE
        /\ rss_feeds = EmptyDict
        /\ sorted_feeds = << >>
        /\ line = << >>
        /\ fetched = << >>
        /\ requests = << >>
        /\ files = << >>

C3_Witness == pc = "exited" /\ env_key = NoneKey /\ exit_status = <<1>>

\* C4: whenever the service failed on a request (it raised, or answered
\* with no content), generate_program_notes returned the fixed failure
\* string, nothing was raised, and run() wrote exactly that string to the
\* output file and returned.
C4_FailureTextIsWritten ==
    \A k \in 1..Len(replies) :
        replies[k] # "text" =>
            /\ program_notes = "Failed to generate program notes. Please try again."
            /\ pc = "returned"
            /\ exception = ""
            /\ exit_status = <<0>>
            /\ Len(files) = 1
            /\ files[1].content = "Failed to generate program notes. Please try again."

C4_Witness ==
    /\ pc = "returned"
    /\ replies = <<"no_content">>
    /\ Len(files) = 1
    /\ files[1].content = FailedMsg

\* C5: once run() is past the combined sort, all_entries is ordered by
\* non-increasing effective date, the effective date being resolved as in
\* the filter (published_parsed, published, updated_parsed, updated).
C5_SortedByEffectiveDate ==
    (pc \in {"topics_prompt", "tech_prompt"} \/ (pc = "returned" /\ files # << >>)) =>
        \A i, j \in 1..Len(all_entries) :
            i < j => RefEffective(all_entries[i]) >= RefEffective(all_entries[j])

\* C6: every run of run() that returns has written exactly one output
\* file, whatever was fetched and whatever the filter kept (also when no
\* entry of any selected feed is in the time window).
C6_OneFilePerRun == pc = "returned" => Len(files) = 1

\* C7: generate_program_notes on an empty entry sequence returns the "no
\* entries" literal and sends no request; a request is sent only for a
\* non-empty entry sequence.
C7_EmptyMeansNoRequest ==
    pc = "generate_done" =>
        /\ all_entries = << >> =>
              /\ program_notes = "No entries found for the selected time period."
              /\ requests = << >>
        /\ requests # << >> => all_entries # << >>

C7_Witness ==
    /\ pc = "generate_done"
    /\ all_entries = << >>
    /\ program_notes = NoEntriesMsg
    /\ requests = << >>

RefClean(name) ==
    [i \in 1..Len(name) |-> IF name[i] \in {" ", "/", "\\"} THEN "_" ELSE name[i]]
RefCut(s) == IF Len(s) > 10 THEN SubSeq(s, 1, 10) ELSE s
RefCount == <<"1", "2", "3", "4", "5", "6", "7", "8", "9">>

\* the documented fragment; cut says whether each name is cut to 10
RefFragment(sel, cut) ==
    LET piece(k) == IF cut THEN RefCut(RefClean(sel[k].name))
                    ELSE RefClean(sel[k].name)
    IN IF Len(sel) = 1 THEN piece(1)
       ELSE IF Len(sel) = 2 THEN piece(1) \o <<"_">> \o piece(2)
       ELSE piece(1) \o <<"_">> \o piece(2) \o <<"_", "a", "n", "d", "_">>
                \o <<RefCount[Len(sel) - 2]>> \o <<"_", "m", "o", "r", "e">>

BitcoinNewsWeekly ==
    <<"B","i","t","c","o","i","n"," ","N","e","w","s","/","W","e","e","k","l","y">>

\* C8 as claimed: the fragment of the written file's name is the selected
\* names with ' ', '/' and '\' replaced by '_' and nothing else changed
\* ("Bitcoin News/Weekly" giving "Bitcoin_News_Weekly"), the first two
\* joined by '_', followed by "_and_N_more" when more than two are selected.
C8_FragmentOnlyReplaces ==
    (pc = "returned" /\ files # << >>) =>
        /\ files[1].name_part = RefFragment(selected_feeds, FALSE)
        /\ (Len(selected_feeds) = 1 /\ selected_feeds[1].name = BitcoinNewsWeekly) =>
              files[1].name_part =
                 <<"B","i","t","c","o","i","n","_","N","e","w","s","_",
                   "W","e","e","k","l","y">>

\* C8 as amended: each name has ' ', '/' and '\' replaced by '_' and is then
\* cut to its first 10 characters ("Bitcoin News/Weekly" giving
\* "Bitcoin_Ne"); the first two are joined by '_', followed by
\* "_and_N_more" with N = selected feeds - 2 when more than two are selected.
C8_FragmentReplacesAndCuts ==
    (pc = "returned" /\ files # << >>) =>
        /\ files[1].name_part = RefFragment(selected_feeds, TRUE)
        /\ (Len(selected_feeds) = 1 /\ selected_feeds[1].name = BitcoinNewsWeekly) =>
              files[1].name_part = <<"B","i","t","c","o","i","n","_","N","e">>

C8_Witness ==
    /\ pc = "returned"
    /\ Len(selected_feeds) = 1
    /\ selected_feeds[1].name = BitcoinNewsWeekly
    /\ Len(files) = 1
    /\ files[1].name_part = <<"B","i","t","c","o","i","n","_","N","e">>

\* the lines each prompt accepts, among the lines typed: the numbers of
\* its range, also written with blanks around them or as "0_1" (the
\* number 1)
RefValidLines ==
    CASE pc = "sort_prompt" ->
            {<<"1">>, <<"2">>, <<"3">>, <<"0", "_", "1">>, <<"\t", "2", " ">>}
      [] pc = "select_prompt" ->
            {<<"2">>, <<"2", ",", "2">>, <<" ", "1", " ", ",", " ", "3">>,
             <<"3", ",", "1", ",", "2">>, <<"0", "_", "2">>,
             <<"1", ",", "\t", "0", "_", "3">>}
      [] pc = "weeks_prompt" ->
            {<<"1">>, <<"2">>, <<"3">>, <<"4">>, <<"0", "_", "1">>}
      [] pc = "topics_prompt" ->
            {<<"1">>, <<"2">>, <<"3">>, <<"4">>, <<"5">>, <<"0", "_", "1">>}
      [] pc = "tech_prompt" ->
            {<<"0">>, <<"1">>, <<"2">>, <<"3">>, <<"4">>, <<"5">>}
      [] OTHER -> {}

RefAtPrompt ==
    pc \in {"sort_prompt", "select_prompt", "weeks_prompt", "topics_prompt",
            "tech_prompt"}

C10_RequestWellFormed ==
    \A k \in 1..Len(requests) :
        /\ selected_indices # << >>
        /\ \A i \in 1..Len(selected_indices) :
              selected_indices[i] >= 0 /\ selected_indices[i] < Len(sorted_feeds)
        /\ weeks_ago \in 1..4
        /\ requests[k].num_topics \in 1..5
        /\ requests[k].tech_level \in 0..5
        /\ Len(requests[k].articles) <= 20
        /\ Len(requests[k].articles) =
              (IF Len(all_entries) < 20 THEN Len(all_entries) ELSE 20)
        /\ \A i \in 1..Len(requests[k].articles) :
              /\ requests[k].articles[i].n = i
              /\ requests[k].articles[i].title = all_entries[i].title

\* A line that was read (input() returned it) and that the prompt does not
\* accept leaves the driver at the prompt: it changes nothing but the
\* variable the prompt reads into (the accepted window weeks_ago is never
\* touched).
C10_InvalidLineStays ==
    (RefAtPrompt /\ exception' # "EOFError" /\ line' \notin RefValidLines) =>
        /\ pc' = pc
        /\ pc # "sort_prompt" => sort_option' = sort_option
        /\ pc # "weeks_prompt" => weeks_choice' = weeks_choice
        /\ pc # "topics_prompt" => num_topics' = num_topics
        /\ pc # "tech_prompt" => tech_level' = tech_level
        /\ UNCHANGED <<env_key, config_file, client, rss_feeds, sorted_feeds,
                       selected_indices, selected_feeds, weeks_ago, now,
                       fetched, entries, filtered_entries, all_entries,
                       requests, replies, program_notes, files, exit_status,
                       exception>>

\* C10: every generation request run() sends is well-formed (at least one
\* selected index, each within the presented list, the window in 1..4,
\* topics in 1..5, depth in 0..5, at most 20 article blocks which are the
\* first min(20, n) merged entries in their order), and a line a prompt
\* does not accept leaves the driver at that prompt, changing nothing but the
\* variable the prompt reads into.
C10_ValidatedRequest ==
    []C10_RequestWellFormed /\ [][C10_InvalidLineStays]_vars

C10_Witness ==
    /\ pc = "returned"
    /\ Len(requests) = 1
    /\ Len(all_entries) > 20
    /\ Len(requests[1].articles) = 20

====
